---- MODULE Spec2Model ----
(***************************************************************************)
(* Order placement of PostgreSQLHandler (src/database/PostgreSQLHandler.py) *)
(* over the tables of src/database/models.py.                               *)
(*                                                                          *)
(* The committed database is the variables customers, products, orders,    *)
(* order_items and the two id sequences.  Every create_order call runs in   *)
(* one transaction (transaction.atomic): its statements are the steps of    *)
(* the model, its uncommitted rows live in tx[s] and reach the committed    *)
(* tables only at commit.  Isolation is PostgreSQL's default READ           *)
(* COMMITTED: a SELECT sees committed rows plus the transaction's own       *)
(* writes, an UPDATE of a row waits for the row lock of another             *)
(* transaction's uncommitted UPDATE.                                        *)
(*                                                                          *)
(* Money is a DecimalField with two decimal places: a record [u, c] of      *)
(* whole units u (any sign) and hundredths c in 0..99, value u + c/100.     *)
(***************************************************************************)
EXTENDS Integers, Sequences, FiniteSets, TLC

VARIABLES customers, customer_email, products, orders, order_items,
          order_id_seq, product_id_seq, customer_id_seq,
          pc, req, loc, tx, pre, result

vars == <<customers, customer_email, products, orders, order_items,
          order_id_seq, product_id_seq, customer_id_seq,
          pc, req, loc, tx, pre, result>>

dbvars == <<customers, customer_email, products, orders, order_items>>

\* ------------------------------------------------------------------------
\* Bounds of the model
\* ------------------------------------------------------------------------
MaxOrderId == 1
MaxConcOrderId == 2
MaxProductId == 3
MaxLines == 2
MaxCustomerId == 2

Sessions == {1, 2}
CustomerIds == {1, 2}
Quantities == {-1, 2, 3, 16}
ConcQuantities == {3}
ConcProductIds == {1, 2}

\* ------------------------------------------------------------------------
\* DecimalField values
\* ------------------------------------------------------------------------
Dec(u, c) == [u |-> u, c |-> c]

DecZero == Dec(0, 0)

DecAdd(a, b) ==
    LET c == a.c + b.c
    IN  [u |-> a.u + b.u + (c \div 100), c |-> c % 100]

DecMul(a, n) ==
    LET c == a.c * n
    IN  [u |-> a.u * n + (c \div 100), c |-> c % 100]

Pow10_8 == 100000000

\* numeric(max_digits, 2): the absolute value is below 10^(max_digits - 2).
\* whole_scale is 10^(max_digits - 2 - 8), so that the limit 10^8 is
\* compared against the whole units divided by whole_scale.
FitsNumeric(d, whole_scale) ==
    LET hi == d.u \div whole_scale
    IN  /\ hi < Pow10_8
        /\ \/ hi > -Pow10_8
           \/ hi = -Pow10_8 /\ (d.u % whole_scale # 0 \/ d.c > 0)

\* OrderItem.total_price and Product.price: max_digits=10, decimal_places=2
FitsLine(d) == FitsNumeric(d, 1)

\* Order.total_amount: max_digits=12, decimal_places=2
FitsOrderTotal(d) == FitsNumeric(d, 100)

\* ------------------------------------------------------------------------
\* Request inputs
\* ------------------------------------------------------------------------
Items == [product_id : 1..MaxProductId, quantity : Quantities]
ConcItems == [product_id : ConcProductIds, quantity : ConcQuantities]

ListsOf(S) == UNION {[1..n -> S] : n \in 0..MaxLines}

Statuses == {"pending", "processing", "shipped", "delivered", "cancelled"}

\* ------------------------------------------------------------------------
\* Session-local state
\* ------------------------------------------------------------------------
NoReq == [customer_id |-> 0, items |-> <<>>]

NoRow == [sku |-> "", price |-> DecZero, quantity |-> 0]

\* order: id of the Order created by the call (0 before line 157);
\* i: 1-based position in items; product/row: the Product instance read at
\* line 161; exc: class of the exception caught at lines 188/192 and
\* at: the statement that raised it; ret: "order" when the call returns the
\* Order, "None" when it returns None.
\* args: what the message of the ValueError of line 165 names.
NoArgs == [product |-> 0, available |-> 0, requested |-> 0]

NoLoc == [order |-> 0, i |-> 0, total_amount |-> DecZero,
          product |-> 0, row |-> NoRow, exc |-> "", at |-> "",
          args |-> NoArgs, ret |-> ""]

\* what the single-statement handler that ran last returned: op is the
\* handler, ret its value ("True", "False", "None" or the kind of object)
\* and rows the ids of a returned list
NoResult == [op |-> "", ret |-> "", rows |-> <<>>]

Returned(op, ret) == [op |-> op, ret |-> ret, rows |-> <<>>]

ReturnedRows(op, rows) == [op |-> op, ret |-> "list", rows |-> rows]

NoTx == [orders |-> << >>, order_items |-> <<>>, products |-> << >>]

NoPre == [products |-> << >>, orders |-> << >>, order_items |-> <<>>]

Snapshot == [products |-> products, orders |-> orders, order_items |-> order_items]

\* ------------------------------------------------------------------------
\* Initial state: the tables after create_test_data's first rows
\* ------------------------------------------------------------------------
SeedProducts ==
    (1 :> [sku |-> "NB001", price |-> Dec(50000, 0), quantity |-> 10]) @@
    (2 :> [sku |-> "PH001", price |-> Dec(30000, 0), quantity |-> 15])

ConcSeedProducts ==
    (1 :> [sku |-> "NB001", price |-> Dec(50000, 0), quantity |-> 5]) @@
    (2 :> [sku |-> "PH001", price |-> Dec(30000, 0), quantity |-> 6])

InitWith(seed) ==
    /\ customers = {1}
    /\ customer_email = (1 :> "ivan@test.com")
    /\ customer_id_seq = 1
    /\ result = NoResult
    /\ products = seed
    /\ orders = << >>
    /\ order_items = <<>>
    /\ order_id_seq = 0
    /\ product_id_seq = 2
    /\ pc = [s \in Sessions |-> "idle"]
    /\ req = [s \in Sessions |-> NoReq]
    /\ loc = [s \in Sessions |-> NoLoc]
    /\ tx = [s \in Sessions |-> NoTx]
    /\ pre = [s \in Sessions |-> NoPre]

Init == InitWith(SeedProducts)

InitConc == InitWith(ConcSeedProducts)

\* ------------------------------------------------------------------------
\* What a statement of session s sees and which rows it has locked
\* ------------------------------------------------------------------------
\* a read that would miss the rows the transaction itself has written
VisibleProducts_committed(s) == products

VisibleProducts(s) == tx[s].products @@ products

LockedByOther(s, p) == \E t \in Sessions \ {s} : p \in DOMAIN tx[t].products

\* the Order ids the sequence will have handed out once the calls that
\* have passed the customer lookup have inserted their Order
OrderIdsDrawn ==
    order_id_seq + Cardinality({t \in Sessions : pc[t] = "insert_order"})

\* the exception handlers of create_order leave only the exception and the
\* order id live
RaiseWith(s, e, args) ==
    /\ loc' = [loc EXCEPT ![s] = [NoLoc EXCEPT !.order = loc[s].order,
                                               !.exc = e, !.at = pc[s],
                                               !.args = args]]
    /\ pc' = [pc EXCEPT ![s] = "except"]

Raise(s, e) == RaiseWith(s, e, NoArgs)

AfterLine(s, next_i) ==
    IF next_i > Len(req[s].items) THEN "save_order" ELSE "get_product"

\* ------------------------------------------------------------------------
\* create_order, statement by statement
\* ------------------------------------------------------------------------
\* create_order that takes customer_id as given, without the lookup
create_order_call_unchecked(s, customer_id, items) ==
    /\ pc[s] = "idle"
    /\ req' = [req EXCEPT ![s] = [customer_id |-> customer_id, items |-> items]]
    /\ pre' = [pre EXCEPT ![s] = Snapshot]
    /\ pc' = [pc EXCEPT ![s] = "insert_order"]
    /\ result' = NoResult
    /\ UNCHANGED <<dbvars, order_id_seq, product_id_seq, customer_id_seq, loc, tx>>

\* entering transaction.atomic and Customer.objects.get(id=customer_id)
create_order_call(s, customer_id, items) ==
    /\ pc[s] = "idle"
    /\ req' = [req EXCEPT ![s] = [customer_id |-> customer_id, items |-> items]]
    /\ pre' = [pre EXCEPT ![s] = Snapshot]
    /\ IF customer_id \in customers
       THEN /\ pc' = [pc EXCEPT ![s] = "insert_order"]
            /\ loc' = loc
       ELSE Raise(s, "ObjectDoesNotExist")
    /\ result' = NoResult
    /\ UNCHANGED <<dbvars, order_id_seq, product_id_seq, customer_id_seq, tx>>

\* an Order created with 'processing' as the default of status
Order_new_processing(customer) ==
    [customer |-> customer, status |-> "processing", total_amount |-> DecZero]

\* Order(customer=customer): status defaults to 'pending', total_amount to 0
Order_new(customer) ==
    [customer |-> customer, status |-> "pending", total_amount |-> DecZero]

\* Order.objects.create(customer=customer, notes=notes); total_amount = 0
create_order_insert_order(s) ==
    /\ pc[s] = "insert_order"
    /\ LET id == order_id_seq + 1
       IN  /\ order_id_seq' = id
           /\ tx' = [tx EXCEPT ![s].orders =
                        (id :> Order_new(req[s].customer_id)) @@ @]
           /\ loc' = [loc EXCEPT ![s].order = id, ![s].i = 1,
                                 ![s].total_amount = DecZero]
    /\ pc' = [pc EXCEPT ![s] = AfterLine(s, 1)]
    /\ UNCHANGED <<dbvars, product_id_seq, customer_id_seq, req, pre, result>>

\* Product.objects.get(id=item['product_id']) and the stock check
create_order_get_product(s) ==
    /\ pc[s] = "get_product"
    /\ LET item == req[s].items[loc[s].i]
           seen == VisibleProducts(s)
       IN  IF item.product_id \notin DOMAIN seen
           THEN Raise(s, "ObjectDoesNotExist")
           ELSE IF seen[item.product_id].quantity < item.quantity
           THEN RaiseWith(s, "ValueError",
                          [product |-> item.product_id,
                           available |-> seen[item.product_id].quantity,
                           requested |-> item.quantity])
           ELSE /\ loc' = [loc EXCEPT ![s].product = item.product_id,
                                      ![s].row = seen[item.product_id]]
                /\ pc' = [pc EXCEPT ![s] = "insert_item"]
    /\ UNCHANGED <<dbvars, order_id_seq, product_id_seq, customer_id_seq, req, tx, pre, result>>

\* OrderItem.save without the multiplication by quantity
OrderItem_save_unit(order, product, quantity, unit_price) ==
    [order |-> order, product |-> product, quantity |-> quantity,
     unit_price |-> unit_price, total_price |-> unit_price]

\* OrderItem.save: total_price = unit_price * quantity
OrderItem_save(order, product, quantity, unit_price) ==
    [order |-> order, product |-> product, quantity |-> quantity,
     unit_price |-> unit_price, total_price |-> DecMul(unit_price, quantity)]

\* a table without the unique_together constraint
UniqueViolation_off(s, row) == FALSE

\* unique_together = ['order', 'product'] against the rows session s sees
UniqueViolation(s, row) ==
    \E k \in 1..Len(order_items \o tx[s].order_items) :
        LET r == (order_items \o tx[s].order_items)[k]
        IN  r.order = row.order /\ r.product = row.product

\* OrderItem.objects.create(order, product, quantity, unit_price)
create_order_insert_item(s) ==
    /\ pc[s] = "insert_item"
    /\ LET item == req[s].items[loc[s].i]
           row == OrderItem_save(loc[s].order, loc[s].product,
                                 item.quantity, loc[s].row.price)
       IN  IF ~FitsLine(row.total_price)
           THEN Raise(s, "DataError") /\ tx' = tx
           ELSE IF UniqueViolation(s, row)
           THEN Raise(s, "IntegrityError") /\ tx' = tx
           ELSE /\ tx' = [tx EXCEPT ![s].order_items = Append(@, row)]
                /\ pc' = [pc EXCEPT ![s] = "save_product"]
                /\ loc' = loc
    /\ UNCHANGED <<dbvars, order_id_seq, product_id_seq, customer_id_seq, req, pre, result>>

\* a loop body that takes the stock but leaves the line out of the total
create_order_save_product_untotalled(s) ==
    /\ pc[s] = "save_product"
    /\ ~LockedByOther(s, loc[s].product)
    /\ LET item == req[s].items[loc[s].i]
           saved == [loc[s].row EXCEPT !.quantity = @ - item.quantity]
       IN  /\ tx' = [tx EXCEPT ![s].products = (loc[s].product :> saved) @@ @]
           /\ loc' = [loc EXCEPT ![s].row = saved, ![s].i = @ + 1]
           /\ pc' = [pc EXCEPT ![s] = AfterLine(s, loc[s].i + 1)]
    /\ UNCHANGED <<dbvars, order_id_seq, product_id_seq, customer_id_seq, req, pre, result>>

\* product.quantity -= item['quantity']; product.save();
\* total_amount += float(order_item.total_price)
create_order_save_product(s) ==
    /\ pc[s] = "save_product"
    /\ ~LockedByOther(s, loc[s].product)
    /\ LET item == req[s].items[loc[s].i]
           order_item == tx[s].order_items[Len(tx[s].order_items)]
           saved == [loc[s].row EXCEPT !.quantity = @ - item.quantity]
       IN  /\ tx' = [tx EXCEPT ![s].products = (loc[s].product :> saved) @@ @]
           /\ loc' = [loc EXCEPT ![s].row = saved,
                                 ![s].total_amount = DecAdd(@, order_item.total_price),
                                 ![s].i = @ + 1]
           /\ pc' = [pc EXCEPT ![s] = AfterLine(s, loc[s].i + 1)]
    /\ UNCHANGED <<dbvars, order_id_seq, product_id_seq, customer_id_seq, req, pre, result>>

\* order.total_amount = total_amount; order.save(); return order
create_order_save_order(s) ==
    /\ pc[s] = "save_order"
    /\ IF ~FitsOrderTotal(loc[s].total_amount)
       THEN Raise(s, "DataError") /\ tx' = tx
       ELSE /\ tx' = [tx EXCEPT ![s].orders[loc[s].order].total_amount =
                                      loc[s].total_amount]
            /\ loc' = [loc EXCEPT ![s].ret = "order"]
            /\ pc' = [pc EXCEPT ![s] = "commit"]
    /\ UNCHANGED <<dbvars, order_id_seq, product_id_seq, customer_id_seq, req, pre, result>>

\* leaving transaction.atomic without needs_rollback: COMMIT
create_order_commit(s) ==
    /\ pc[s] = "commit"
    /\ products' = tx[s].products @@ products
    /\ orders' = tx[s].orders @@ orders
    /\ order_items' = order_items \o tx[s].order_items
    /\ tx' = [tx EXCEPT ![s] = NoTx]
    /\ pc' = [pc EXCEPT ![s] = "done"]
    /\ UNCHANGED <<customers, customer_email, order_id_seq, product_id_seq, customer_id_seq, req, loc, pre, result>>

\* except clauses that return None without transaction.set_rollback(True):
\* leaving transaction.atomic commits what the call has written so far
create_order_except_commit(s) ==
    /\ pc[s] = "except"
    /\ products' = tx[s].products @@ products
    /\ orders' = tx[s].orders @@ orders
    /\ order_items' = order_items \o tx[s].order_items
    /\ tx' = [tx EXCEPT ![s] = NoTx]
    /\ loc' = [loc EXCEPT ![s].ret = "None"]
    /\ pc' = [pc EXCEPT ![s] = "done"]
    /\ UNCHANGED <<customers, customer_email, order_id_seq, product_id_seq, customer_id_seq, req, pre, result>>

\* both except clauses: transaction.set_rollback(True); return None;
\* leaving transaction.atomic then issues ROLLBACK
create_order_except(s) ==
    /\ pc[s] = "except"
    /\ tx' = [tx EXCEPT ![s] = NoTx]
    /\ loc' = [loc EXCEPT ![s].ret = "None"]
    /\ pc' = [pc EXCEPT ![s] = "done"]
    /\ UNCHANGED <<dbvars, order_id_seq, product_id_seq, customer_id_seq, req, pre, result>>

\* the caller has received the result
create_order_return(s) ==
    /\ pc[s] = "done"
    /\ pc' = [pc EXCEPT ![s] = "idle"]
    /\ req' = [req EXCEPT ![s] = NoReq]
    /\ loc' = [loc EXCEPT ![s] = NoLoc]
    /\ pre' = [pre EXCEPT ![s] = NoPre]
    /\ UNCHANGED <<dbvars, order_id_seq, product_id_seq, customer_id_seq, tx, result>>

StatementPcs == {"insert_order", "get_product", "insert_item",
                 "save_product", "save_order"}

\* any statement may raise a storage error (django.db.utils.OperationalError),
\* which the second except clause catches
storage_error(s) ==
    /\ pc[s] \in StatementPcs
    /\ Raise(s, "OperationalError")
    /\ UNCHANGED <<dbvars, order_id_seq, product_id_seq, customer_id_seq, req, tx, pre, result>>

\* a server that never looks for lock cycles
deadlock_abort_never(s) ==
    /\ FALSE
    /\ UNCHANGED vars

\* two transactions each wait for a row the other has updated: PostgreSQL
\* aborts one of them with "deadlock detected" (OperationalError)
deadlock_abort(s) ==
    /\ pc[s] = "save_product"
    /\ \E t \in Sessions \ {s} :
          /\ pc[t] = "save_product"
          /\ loc[s].product \in DOMAIN tx[t].products
          /\ loc[t].product \in DOMAIN tx[s].products
    /\ Raise(s, "OperationalError")
    /\ UNCHANGED <<dbvars, order_id_seq, product_id_seq, customer_id_seq, req, tx, pre, result>>

create_order_step(s) ==
    \/ create_order_insert_order(s)
    \/ create_order_get_product(s)
    \/ create_order_insert_item(s)
    \/ create_order_save_product(s)
    \/ create_order_save_order(s)
    \/ create_order_commit(s)
    \/ create_order_except(s)
    \/ create_order_return(s)

\* ------------------------------------------------------------------------
\* The single-statement handlers
\* ------------------------------------------------------------------------
AllIdle == \A s \in Sessions : pc[s] = "idle"

ProductPrices == {Dec(1500, 0), Dec(99999999, 99)}
ProductQuantities == {-1, 5}
Skus == {"PH001", "TS001"}

\* Product.objects.create(**kwargs): the id is drawn from the sequence
\* before the unique index on sku is checked
create_product(sku, price, quantity) ==
    /\ AllIdle
    /\ product_id_seq' = product_id_seq + 1
    /\ IF \E p \in DOMAIN products : products[p].sku = sku
       THEN /\ products' = products
            /\ result' = Returned("create_product", "None")
       ELSE /\ products' = ((product_id_seq + 1) :>
                            [sku |-> sku, price |-> price, quantity |-> quantity])
                        @@ products
            /\ result' = Returned("create_product", "product")
    /\ UNCHANGED <<customers, customer_email, orders, order_items,
                   order_id_seq, customer_id_seq, pc, req, loc, tx, pre>>

StatusInputs == {"pending", "delivered", "refunded"}

\* a status update that would also clear the total of the order
update_order_status_reset(order_id, new_status) ==
    /\ AllIdle
    /\ IF order_id \in DOMAIN orders
       THEN /\ orders' = [orders EXCEPT ![order_id].status = new_status,
                                        ![order_id].total_amount = DecZero]
            /\ result' = Returned("update_order_status", "True")
       ELSE /\ orders' = orders
            /\ result' = Returned("update_order_status", "False")
    /\ UNCHANGED <<customers, customer_email, products, order_items,
                   order_id_seq, product_id_seq, customer_id_seq,
                   pc, req, loc, tx, pre>>

\* order = Order.objects.get(id=order_id); order.status = new_status; save
update_order_status(order_id, new_status) ==
    /\ AllIdle
    /\ IF order_id \in DOMAIN orders
       THEN /\ orders' = [orders EXCEPT ![order_id].status = new_status]
            /\ result' = Returned("update_order_status", "True")
       ELSE /\ orders' = orders
            /\ result' = Returned("update_order_status", "False")
    /\ UNCHANGED <<customers, customer_email, products, order_items,
                   order_id_seq, product_id_seq, customer_id_seq,
                   pc, req, loc, tx, pre>>

Emails == {"ivan@test.com", "maria@test.com"}

\* Customer.objects.create(**kwargs): the id is drawn from the sequence
\* before the unique index on email is checked
create_customer(email) ==
    /\ AllIdle
    /\ customer_id_seq' = customer_id_seq + 1
    /\ IF \E c \in customers : customer_email[c] = email
       THEN /\ UNCHANGED <<customers, customer_email>>
            /\ result' = Returned("create_customer", "None")
       ELSE /\ customers' = customers \cup {customer_id_seq + 1}
            /\ customer_email' = ((customer_id_seq + 1) :> email) @@ customer_email
            /\ result' = Returned("create_customer", "customer")
    /\ UNCHANGED <<products, orders, order_items, order_id_seq, product_id_seq,
                   pc, req, loc, tx, pre>>

RECURSIVE Descending(_)
\* the ids of S, the latest first: order_by('-order_date'), order_date
\* being the time of the insert
Descending(S) ==
    IF S = {} THEN <<>>
    ELSE LET m == CHOOSE x \in S : \A y \in S : y <= x
         IN  <<m>> \o Descending(S \ {m})

\* the orders in which a query without order_by may return the rows of S
AnyOrder(S) ==
    {f \in [1..Cardinality(S) -> S] :
        \A j, k \in 1..Cardinality(S) : f[j] = f[k] => j = k}

ReadOnly ==
    UNCHANGED <<dbvars, order_id_seq, product_id_seq, customer_id_seq,
                pc, req, loc, tx, pre>>

\* Customer.objects.get(id=customer_id), None when there is no such row
get_customer(customer_id) ==
    /\ AllIdle
    /\ result' = IF customer_id \in customers
                 THEN ReturnedRows("get_customer", <<customer_id>>)
                 ELSE Returned("get_customer", "None")
    /\ ReadOnly

\* list(Order.objects.filter(customer_id=customer_id).order_by('-order_date'))
get_orders_by_customer(customer_id) ==
    /\ AllIdle
    /\ result' = ReturnedRows("get_orders_by_customer",
                    Descending({o \in DOMAIN orders :
                                  orders[o].customer = customer_id}))
    /\ ReadOnly

\* list(Order.objects.filter(status=status).order_by('-order_date'))
get_orders_by_status(status) ==
    /\ AllIdle
    /\ result' = ReturnedRows("get_orders_by_status",
                    Descending({o \in DOMAIN orders : orders[o].status = status}))
    /\ ReadOnly

\* list(Product.objects.filter(quantity__lt=threshold, is_active=True));
\* every product of the model has the default is_active=True
get_low_stock_products(threshold) ==
    /\ AllIdle
    /\ \E rows \in AnyOrder({p \in DOMAIN products :
                                products[p].quantity < threshold}) :
          result' = ReturnedRows("get_low_stock_products", rows)
    /\ ReadOnly

\* ------------------------------------------------------------------------
\* Writes of the models that bypass the handler
\* ------------------------------------------------------------------------
Without(f, k) == [x \in DOMAIN f \ {k} |-> f[x]]

\* a price change that would also reprice the lines already sold
Product_save_price_reprice(p, price) ==
    /\ AllIdle
    /\ p \in DOMAIN products
    /\ products' = [products EXCEPT ![p].price = price]
    /\ order_items' =
          [k \in 1..Len(order_items) |->
              IF order_items[k].product = p
              THEN [order_items[k] EXCEPT
                       !.unit_price = price,
                       !.total_price = DecMul(price, order_items[k].quantity)]
              ELSE order_items[k]]
    /\ result' = NoResult
    /\ UNCHANGED <<customers, customer_email, orders, order_id_seq,
                   product_id_seq, customer_id_seq, pc, req, loc, tx, pre>>

\* product.price = price; product.save(): Product keeps Model.save, only
\* its own row is written
Product_save_price(p, price) ==
    /\ AllIdle
    /\ p \in DOMAIN products
    /\ products' = [products EXCEPT ![p].price = price]
    /\ result' = NoResult
    /\ UNCHANGED <<customers, customer_email, orders, order_items, order_id_seq,
                   product_id_seq, customer_id_seq, pc, req, loc, tx, pre>>

\* customer.delete(): Order.customer is on_delete=PROTECT
Customer_delete(c) ==
    /\ AllIdle
    /\ c \in customers
    /\ IF \E o \in DOMAIN orders : orders[o].customer = c
       THEN /\ UNCHANGED <<customers, customer_email>>
            /\ result' = Returned("Customer.delete", "ProtectedError")
       ELSE /\ customers' = customers \ {c}
            /\ customer_email' = Without(customer_email, c)
            /\ result' = Returned("Customer.delete", "deleted")
    /\ UNCHANGED <<products, orders, order_items, order_id_seq, product_id_seq,
                   customer_id_seq, pc, req, loc, tx, pre>>

\* a Product whose delete is not held back by its order lines
Product_delete_unprotected(p) ==
    /\ AllIdle
    /\ p \in DOMAIN products
    /\ products' = Without(products, p)
    /\ result' = Returned("Product.delete", "deleted")
    /\ UNCHANGED <<customers, customer_email, orders, order_items, order_id_seq,
                   product_id_seq, customer_id_seq, pc, req, loc, tx, pre>>

\* product.delete(): OrderItem.product is on_delete=PROTECT
Product_delete(p) ==
    /\ AllIdle
    /\ p \in DOMAIN products
    /\ IF \E k \in 1..Len(order_items) : order_items[k].product = p
       THEN /\ products' = products
            /\ result' = Returned("Product.delete", "ProtectedError")
       ELSE /\ products' = Without(products, p)
            /\ result' = Returned("Product.delete", "deleted")
    /\ UNCHANGED <<customers, customer_email, orders, order_items, order_id_seq,
                   product_id_seq, customer_id_seq, pc, req, loc, tx, pre>>

NotOfOrder(o) == LET keep(r) == r.order # o IN SelectSeq(order_items, keep)

\* order.delete(): OrderItem.order is on_delete=CASCADE
Order_delete(o) ==
    /\ AllIdle
    /\ o \in DOMAIN orders
    /\ orders' = Without(orders, o)
    /\ order_items' = NotOfOrder(o)
    /\ result' = Returned("Order.delete", "deleted")
    /\ UNCHANGED <<customers, customer_email, products, order_id_seq,
                   product_id_seq, customer_id_seq, pc, req, loc, tx, pre>>

\* ------------------------------------------------------------------------
\* Specifications
\* ------------------------------------------------------------------------
\* one caller: the handlers run one after the other
Next ==
    \/ /\ OrderIdsDrawn < MaxOrderId
       /\ \E c \in CustomerIds, items \in ListsOf(Items) :
             create_order_call(1, c, items)
    \/ create_order_step(1)
    \/ storage_error(1)
    \/ /\ product_id_seq < MaxProductId
       /\ \E sku \in Skus, price \in ProductPrices, quantity \in ProductQuantities :
             create_product(sku, price, quantity)
    \/ \E o \in 1..MaxOrderId, st \in StatusInputs : update_order_status(o, st)

Spec == Init /\ [][Next]_vars

OpsProductIds == {1, 2}
OpsQuantities == {2}
OpsItems == [product_id : OpsProductIds, quantity : OpsQuantities]
OpsPrices == {Dec(45000, 50)}
OpsThresholds == {10}
\* the empty request and the requests of one line
OpsLists == {<<>>} \cup {<<i>> : i \in OpsItems}

\* one caller using every operation on the tables
NextOps ==
    \/ /\ OrderIdsDrawn < MaxOrderId
       /\ \E c \in CustomerIds, items \in OpsLists :
             create_order_call(1, c, items)
    \/ create_order_step(1)
    \/ \E o \in 1..MaxOrderId, st \in StatusInputs : update_order_status(o, st)
    \/ /\ customer_id_seq < MaxCustomerId
       /\ \E email \in Emails : create_customer(email)
    \/ /\ product_id_seq < MaxProductId
       /\ \E sku \in Skus, price \in OpsPrices : create_product(sku, price, 5)
    \/ \E c \in CustomerIds : get_customer(c)
    \/ \E c \in CustomerIds : get_orders_by_customer(c)
    \/ \E st \in StatusInputs : get_orders_by_status(st)
    \/ \E th \in OpsThresholds : get_low_stock_products(th)
    \/ \E p \in OpsProductIds, price \in OpsPrices : Product_save_price(p, price)
    \/ \E c \in CustomerIds : Customer_delete(c)
    \/ \E p \in 1..MaxProductId : Product_delete(p)
    \/ \E o \in 1..MaxOrderId : Order_delete(o)

SpecOps == Init /\ [][NextOps]_vars

\* two callers whose create_order transactions interleave
NextConc ==
    \E s \in Sessions :
        \/ /\ OrderIdsDrawn < MaxConcOrderId
           /\ \E items \in ListsOf(ConcItems) : create_order_call(s, 1, items)
        \/ create_order_step(s)
        \/ deadlock_abort(s)

SpecConc == InitConc /\ [][NextConc]_vars

\* a call that can take its next statement takes it (the handler is one
\* synchronous thread of control), and the server's deadlock detector runs
\* once a lock wait has lasted deadlock_timeout
FairSpecConc ==
    /\ SpecConc
    /\ \A s \in Sessions :
          WF_vars(create_order_step(s)) /\ WF_vars(deadlock_abort(s))

\* ------------------------------------------------------------------------
\* Vocabulary of the properties
\* ------------------------------------------------------------------------
Done(s) == pc[s] = "done"

Succeeded(s) == Done(s) /\ loc[s].ret = "order"

Failed(s) == Done(s) /\ loc[s].ret = "None"

\* no storage error interrupted the call
Undisturbed(s) == loc[s].exc # "OperationalError"

\* the committed tables are what they were when the call started
Unchanged(s) ==
    /\ products = pre[s].products
    /\ orders = pre[s].orders
    /\ order_items = pre[s].order_items

LineIdx(s) == 1..Len(req[s].items)

Line(s, k) == req[s].items[k]

ProductExisted(s, k) == Line(s, k).product_id \in DOMAIN pre[s].products

StockBefore(s, k) == pre[s].products[Line(s, k).product_id].quantity

PriceBefore(s, k) == pre[s].products[Line(s, k).product_id].price

LineTotal(s, k) == DecMul(PriceBefore(s, k), Line(s, k).quantity)

RECURSIVE Requested(_, _)
\* the quantity a line list requests of product p
Requested(items, p) ==
    IF items = <<>> THEN 0
    ELSE (IF Head(items).product_id = p THEN Head(items).quantity ELSE 0)
         + Requested(Tail(items), p)

RECURSIVE SumOfLines(_, _)
\* the sum of unit_price x quantity over the first k lines of the request
SumOfLines(s, k) ==
    IF k = 0 THEN DecZero ELSE DecAdd(SumOfLines(s, k - 1), LineTotal(s, k))

\* the OrderItem rows the request stands for
ExpectedRows(s) ==
    [k \in LineIdx(s) |->
        [order |-> loc[s].order, product |-> Line(s, k).product_id,
         quantity |-> Line(s, k).quantity, unit_price |-> PriceBefore(s, k),
         total_price |-> LineTotal(s, k)]]

\* existing customer, every line an existing product named once with
\* 1 <= quantity <= stock
ValidRequest(s) ==
    /\ req[s].customer_id \in customers
    /\ \A k \in LineIdx(s) :
          /\ ProductExisted(s, k)
          /\ 1 <= Line(s, k).quantity
          /\ Line(s, k).quantity <= StockBefore(s, k)
          /\ \A j \in LineIdx(s) \ {k} :
                Line(s, j).product_id # Line(s, k).product_id

\* every line total fits total_price and the sum fits total_amount
AmountsFit(s) ==
    /\ \A k \in LineIdx(s) : FitsLine(LineTotal(s, k))
    /\ FitsOrderTotal(SumOfLines(s, Len(req[s].items)))

PlacedAsRequested(s) ==
    /\ Succeeded(s)
    /\ DOMAIN orders = DOMAIN pre[s].orders \cup {loc[s].order}
    /\ orders[loc[s].order].customer = req[s].customer_id
    /\ orders[loc[s].order].total_amount = SumOfLines(s, Len(req[s].items))
    /\ order_items = pre[s].order_items \o ExpectedRows(s)
    /\ DOMAIN products = DOMAIN pre[s].products
    /\ \A p \in DOMAIN products :
          /\ products[p].quantity =
                pre[s].products[p].quantity - Requested(req[s].items, p)
          /\ products[p].price = pre[s].products[p].price

\* ------------------------------------------------------------------------
\* C1
\* ------------------------------------------------------------------------
\* C1 as stated: every call with an existing customer and lines that each
\* name an existing, distinct product with 1 <= quantity <= stock succeeds,
\* the persisted total_amount is the sum of unit_price x quantity, each
\* ordered product's stock is lower by the requested quantity and every
\* other stock is unchanged.
C1_ValidOrderAlwaysPlaced ==
    \A s \in Sessions :
        (Done(s) /\ Undisturbed(s) /\ ValidRequest(s)) => PlacedAsRequested(s)

\* C1 amended: the same, for the requests whose line totals fit the ten
\* digits of OrderItem.total_price and whose sum fits the twelve digits of
\* Order.total_amount.
C1_ValidOrderPlaced ==
    \A s \in Sessions :
        (Done(s) /\ Undisturbed(s) /\ ValidRequest(s) /\ AmountsFit(s))
            => PlacedAsRequested(s)

\* the example of the specification: [(A,2),(B,3)] from stock {A:10, B:15}
C1_Witness ==
    /\ Succeeded(1)
    /\ req[1].items = << [product_id |-> 1, quantity |-> 2],
                         [product_id |-> 2, quantity |-> 3] >>
    /\ pre[1].products[1].quantity = 10
    /\ pre[1].products[2].quantity = 15
    /\ orders[loc[1].order].total_amount = Dec(190000, 0)
    /\ products[1].quantity = 8
    /\ products[2].quantity = 12

\* ------------------------------------------------------------------------
\* C2
\* ------------------------------------------------------------------------
CustomerExisted(s) == req[s].customer_id \in customers

\* line k asks for more than the product's stock at the start of the call
OverStock(s, k) ==
    ProductExisted(s, k) /\ Line(s, k).quantity > StockBefore(s, k)

\* line k on its own passes every step of the loop body
GoodLine(s, k) ==
    /\ ProductExisted(s, k)
    /\ 1 <= Line(s, k).quantity
    /\ Line(s, k).quantity <= StockBefore(s, k)
    /\ FitsLine(LineTotal(s, k))
    /\ \A j \in 1..(k - 1) : Line(s, j).product_id # Line(s, k).product_id

\* the first step of the call that fails is the stock check of a line
StockCheckFailsFirst(s) ==
    /\ CustomerExisted(s)
    /\ \E k \in LineIdx(s) :
          OverStock(s, k) /\ \A j \in 1..(k - 1) : GoodLine(s, j)

\* C2 as stated: a call whose line list has a line asking for more than the
\* product's stock fails with InsufficientStock (the ValueError of line 165)
\* and leaves orders, order lines and stocks as they were.
C2_OverStockAlwaysInsufficientStock ==
    \A s \in Sessions :
        (Done(s) /\ Undisturbed(s) /\ CustomerExisted(s)
            /\ \E k \in LineIdx(s) : OverStock(s, k))
        => (Failed(s) /\ loc[s].exc = "ValueError" /\ Unchanged(s))

\* C2 amended: such a call always fails and leaves orders, order lines and
\* stocks as they were; the failure is InsufficientStock when the stock
\* check of that line is the first step that fails.
C2_OverStockRolledBack ==
    \A s \in Sessions :
        (Done(s) /\ \E k \in LineIdx(s) : OverStock(s, k))
        => /\ Failed(s)
           /\ Unchanged(s)
           /\ (Undisturbed(s) /\ StockCheckFailsFirst(s))
                 => loc[s].exc = "ValueError"

\* a valid first line was inserted and decremented, the second is over stock
C2_Witness ==
    /\ Failed(1)
    /\ Len(req[1].items) = 2
    /\ CustomerExisted(1)
    /\ GoodLine(1, 1)
    /\ OverStock(1, 2)
    /\ loc[1].exc = "ValueError"
    /\ loc[1].at = "get_product"

\* ------------------------------------------------------------------------
\* C3
\* ------------------------------------------------------------------------
\* C3: two create_order calls that started from the same stock of a product
\* and together request more than that stock never both succeed.
C3_NoOversell ==
    \A p \in DOMAIN products :
        ~ /\ Succeeded(1)
          /\ Succeeded(2)
          /\ pre[1].products[p].quantity = pre[2].products[p].quantity
          /\ Requested(req[1].items, p) > 0
          /\ Requested(req[2].items, p) > 0
          /\ Requested(req[1].items, p) + Requested(req[2].items, p)
                > pre[1].products[p].quantity

\* ------------------------------------------------------------------------
\* C4
\* ------------------------------------------------------------------------
InFlight(s) == pc[s] \notin {"idle", "done"}

\* C4: whatever step of create_order fails, a later read finds no Order row,
\* no OrderLine row and no stock decrement of that call; nothing of a call
\* is visible before it commits either.
C4_FailureDiscardsEverything ==
    \A s \in Sessions :
        /\ Failed(s) => Unchanged(s)
        /\ InFlight(s) => Unchanged(s)

\* a storage error at the final order.save(), after two lines were written
C4_Witness ==
    /\ Failed(1)
    /\ loc[1].exc = "OperationalError"
    /\ loc[1].at = "save_order"
    /\ Len(req[1].items) = 2
    /\ loc[1].order # 0

\* ------------------------------------------------------------------------
\* C5
\* ------------------------------------------------------------------------
\* C5: create_order with a customer_id that matches no Customer fails with
\* NotFound (ObjectDoesNotExist), inserts no Order and changes nothing,
\* whatever the line list.
C5_MissingCustomerNotFound ==
    \A s \in Sessions :
        (Done(s) /\ ~CustomerExisted(s))
        => /\ Failed(s)
           /\ loc[s].exc = "ObjectDoesNotExist"
           /\ loc[s].order = 0
           /\ Unchanged(s)

\* a missing customer with two lines that could have been served
C5_Witness ==
    /\ Failed(1)
    /\ ~CustomerExisted(1)
    /\ Len(req[1].items) = 2
    /\ \A k \in LineIdx(1) : GoodLine(1, k)

\* ------------------------------------------------------------------------
\* C6
\* ------------------------------------------------------------------------
MissingProduct(s, k) == ~ProductExisted(s, k)

\* the first step of the call that fails is a lookup
LookupFailsFirst(s) ==
    \/ ~CustomerExisted(s)
    \/ \E k \in LineIdx(s) :
          MissingProduct(s, k) /\ \A j \in 1..(k - 1) : GoodLine(s, j)

\* C6 as stated: a call whose line list names a product that does not exist
\* fails with NotFound and leaves no row and no stock change.
C6_MissingProductAlwaysNotFound ==
    \A s \in Sessions :
        (Done(s) /\ Undisturbed(s) /\ CustomerExisted(s)
            /\ \E k \in LineIdx(s) : MissingProduct(s, k))
        => (Failed(s) /\ loc[s].exc = "ObjectDoesNotExist" /\ Unchanged(s))

\* C6 amended: such a call always fails and leaves no row and no stock
\* change; the failure is NotFound when the lookup is the first step that
\* fails.
C6_MissingProductRolledBack ==
    \A s \in Sessions :
        (Done(s) /\ \E k \in LineIdx(s) : MissingProduct(s, k))
        => /\ Failed(s)
           /\ Unchanged(s)
           /\ (Undisturbed(s) /\ LookupFailsFirst(s))
                 => loc[s].exc = "ObjectDoesNotExist"

\* a valid first line was inserted and decremented, the second product is
\* missing
C6_Witness ==
    /\ Failed(1)
    /\ CustomerExisted(1)
    /\ Len(req[1].items) = 2
    /\ GoodLine(1, 1)
    /\ MissingProduct(1, 2)
    /\ loc[1].exc = "ObjectDoesNotExist"
    /\ loc[1].at = "get_product"

\* ------------------------------------------------------------------------
\* C7
\* ------------------------------------------------------------------------
\* C7: in every committed state every Product's stock quantity is >= 0.
C7_StockNeverNegative ==
    \A p \in DOMAIN products : products[p].quantity >= 0

\* ------------------------------------------------------------------------
\* C8
\* ------------------------------------------------------------------------
\* C8: no two committed OrderLine rows share the same (order, product) pair.
C8_OneLinePerOrderProduct ==
    \A j, k \in 1..Len(order_items) :
        (order_items[j].order = order_items[k].order
            /\ order_items[j].product = order_items[k].product) => j = k

\* a list naming one product twice has been refused by the constraint, and
\* no row of it is in the table
C8_Witness ==
    /\ Done(1)
    /\ Len(req[1].items) = 2
    /\ Line(1, 1).product_id = Line(1, 2).product_id
    /\ loc[1].at = "insert_item"
    /\ loc[1].exc = "IntegrityError"
    /\ \A k \in 1..Len(order_items) : order_items[k].order # loc[1].order

\* ------------------------------------------------------------------------
\* C9
\* ------------------------------------------------------------------------
\* two lines naming the same existing product, the first one valid
DuplicateRequest(s) ==
    /\ CustomerExisted(s)
    /\ Len(req[s].items) = 2
    /\ Line(s, 1).product_id = Line(s, 2).product_id
    /\ ProductExisted(s, 1)

\* the stock the second line finds after the first line's decrement
StockLeft(s) == StockBefore(s, 1) - Line(s, 1).quantity

FailureKind(exc) ==
    CASE exc = "ObjectDoesNotExist" -> "NotFound"
      [] exc = "ValueError" -> "InsufficientStock"
      [] exc = "IntegrityError" -> "DuplicateLine"
      [] OTHER -> "StorageFailure"

\* C10: the value create_order returns on failure tells the failure kind.
C10_ReturnTellsFailureKind ==
    \A s \in Sessions :
        Failed(s) => loc[s].ret = FailureKind(loc[s].exc)

\* ------------------------------------------------------------------------
\* Order.status
\* ------------------------------------------------------------------------
\* pending -> processing -> shipped -> delivered, pending/processing ->
\* cancelled
StatusEdges ==
    {<<"pending", "processing">>, <<"processing", "shipped">>,
     <<"shipped", "delivered">>, <<"pending", "cancelled">>,
     <<"processing", "cancelled">>}

\* C11: the status of an order changes only along an edge of the state
\* machine; an update_order_status call asking for any other change leaves
\* the status as it was.
C11_StatusFollowsStateMachine ==
    [][\A o \in DOMAIN orders \cap DOMAIN orders' :
          orders'[o].status # orders[o].status
              => <<orders[o].status, orders'[o].status>> \in StatusEdges]_vars

\* ------------------------------------------------------------------------
\* The order a successful call commits
\* ------------------------------------------------------------------------
LinesOf(o) == LET of_o(r) == r.order = o IN SelectSeq(order_items, of_o)

\* C12: an order returned by create_order has status pending; with an
\* existing customer and an empty line list the call succeeds and commits a
\* pending order with no lines and total_amount 0, every stock as it was.
C12_NewOrderPending ==
    \A s \in Sessions :
        /\ Succeeded(s) =>
              /\ loc[s].order \in DOMAIN orders
              /\ orders[loc[s].order].status = "pending"
        /\ (Done(s) /\ Undisturbed(s) /\ CustomerExisted(s)
                /\ req[s].items = <<>>) =>
              /\ Succeeded(s)
              /\ DOMAIN orders = DOMAIN pre[s].orders \cup {loc[s].order}
              /\ loc[s].order \notin DOMAIN pre[s].orders
              /\ orders[loc[s].order].status = "pending"
              /\ orders[loc[s].order].total_amount = DecZero
              /\ LinesOf(loc[s].order) = <<>>
              /\ order_items = pre[s].order_items
              /\ products = pre[s].products

C12_Witness ==
    /\ Succeeded(1)
    /\ req[1].items = <<>>
    /\ orders[loc[1].order].status = "pending"
    /\ orders[loc[1].order].total_amount = DecZero

\* ------------------------------------------------------------------------
\* Prices of order lines
\* ------------------------------------------------------------------------
\* the step in which the call of s commits an order
Commits(s) == pc[s] = "commit" /\ pc'[s] = "done" /\ loc'[s].ret = "order"

PriceChanged(p) ==
    /\ p \in DOMAIN products \cap DOMAIN products'
    /\ products'[p].price # products[p].price

\* C13: a line created by create_order carries the price of the product as
\* the call read it and the total unit_price x quantity; changing the price
\* of a product afterwards changes no existing line and no existing order.
C13_LinePriceSnapshot ==
    [][/\ \A s \in Sessions :
             Commits(s) =>
                /\ order_items' = order_items \o ExpectedRows(s)'
                /\ \A k \in LineIdx(s) :
                      /\ ExpectedRows(s)'[k].unit_price =
                            products[Line(s, k).product_id].price
                      /\ ExpectedRows(s)'[k].total_price =
                            DecMul(products[Line(s, k).product_id].price,
                                   Line(s, k).quantity)
       /\ \A k \in 1..Len(order_items') :
             order_items'[k].total_price =
                DecMul(order_items'[k].unit_price, order_items'[k].quantity)
       /\ (\E p \in DOMAIN products : PriceChanged(p)) =>
             /\ order_items' = order_items
             /\ orders' = orders]_vars

\* a committed line whose unit_price is no longer the price of its product
C13_Witness ==
    \E k \in 1..Len(order_items) :
        /\ order_items[k].product \in DOMAIN products
        /\ order_items[k].unit_price # products[order_items[k].product].price
        /\ order_items[k].total_price =
              DecMul(order_items[k].unit_price, order_items[k].quantity)
        /\ order_items[k].order \in DOMAIN orders
        /\ orders[order_items[k].order].total_amount = order_items[k].total_price

\* ------------------------------------------------------------------------
\* Quantities of order lines
\* ------------------------------------------------------------------------
\* C14: every committed OrderLine has quantity >= 1, whatever quantities
\* the requests carry; a line with quantity < 1 is never stored and never
\* raises the stock of a product.
C14_LineQuantityAtLeastOne ==
    /\ \A k \in 1..Len(order_items) : order_items[k].quantity >= 1
    /\ \A s \in Sessions :
          Done(s) => \A p \in DOMAIN pre[s].products :
                        products[p].quantity <= pre[s].products[p].quantity

\* ------------------------------------------------------------------------
\* What the other operations leave alone
\* ------------------------------------------------------------------------
\* the step is one of update_order_status, create_customer, create_product
\* or a get_* read
OtherOperation ==
    \/ \E o \in 1..MaxOrderId, st \in StatusInputs : update_order_status(o, st)
    \/ \E email \in Emails : create_customer(email)
    \/ \E sku \in Skus, price \in OpsPrices \cup ProductPrices,
          quantity \in ProductQuantities \cup {5} :
          create_product(sku, price, quantity)
    \/ \E c \in CustomerIds : get_customer(c)
    \/ \E c \in CustomerIds : get_orders_by_customer(c)
    \/ \E st \in StatusInputs : get_orders_by_status(st)
    \/ \E th \in OpsThresholds : get_low_stock_products(th)

TotalsAndStockKept ==
    /\ order_items' = order_items
    /\ \A o \in DOMAIN orders :
          /\ o \in DOMAIN orders'
          /\ orders'[o].total_amount = orders[o].total_amount
    /\ \A p \in DOMAIN products :
          /\ p \in DOMAIN products'
          /\ products'[p].quantity = products[p].quantity

TotalOrStockChanged ==
    \/ \E o \in DOMAIN orders \cap DOMAIN orders' :
          orders'[o].total_amount # orders[o].total_amount
    \/ \E p \in DOMAIN products \cap DOMAIN products' :
          products'[p].quantity # products[p].quantity

\* C15: update_order_status, create_customer, create_product and the get_*
\* reads leave the total_amount and the lines of every existing order and
\* the stock of every existing product as they were; a step that changes a
\* total_amount or a stock is the commit of a create_order call.
C15_OnlyCreateOrderChangesTotals ==
    [][/\ OtherOperation => TotalsAndStockKept
       /\ TotalOrStockChanged => \E s \in Sessions : Commits(s)]_vars

\* update_order_status has just changed an order that has a line and a total
C15_Witness ==
    /\ result = Returned("update_order_status", "True")
    /\ \E o \in DOMAIN orders :
          /\ orders[o].status = "delivered"
          /\ orders[o].total_amount # DecZero
          /\ LinesOf(o) # <<>>
    /\ \E p \in DOMAIN products \cap DOMAIN SeedProducts :
          products[p].quantity # SeedProducts[p].quantity

\* ------------------------------------------------------------------------
\* Deletes
\* ------------------------------------------------------------------------
HasOrders(c) == \E o \in DOMAIN orders : orders[o].customer = c

HasLines(p) == \E k \in 1..Len(order_items) : order_items[k].product = p

\* every foreign key of the next state points at a row
ReferencesKept ==
    /\ \A o \in DOMAIN orders' : orders'[o].customer \in customers'
    /\ \A k \in 1..Len(order_items') :
          /\ order_items'[k].order \in DOMAIN orders'
          /\ order_items'[k].product \in DOMAIN products'

\* C16: deleting a customer that has an order, or a product that has an
\* order line, is refused and changes no row; deleting an order removes
\* that order and its lines, no other row, and no product's stock changes.
C16_DeleteProtectsAndCascades ==
    [][/\ \A c \in CustomerIds :
             (Customer_delete(c) /\ HasOrders(c)) =>
                /\ UNCHANGED dbvars
                /\ result'.ret = "ProtectedError"
       /\ \A p \in 1..MaxProductId :
             (Product_delete(p) /\ HasLines(p)) =>
                /\ UNCHANGED dbvars
                /\ result'.ret = "ProtectedError"
       /\ \A o \in 1..MaxOrderId :
             Order_delete(o) =>
                /\ DOMAIN orders' = DOMAIN orders \ {o}
                /\ \A other \in DOMAIN orders' : orders'[other] = orders[other]
                /\ order_items' = NotOfOrder(o)
                /\ \A k \in 1..Len(order_items') : order_items'[k].order # o
                /\ Len(order_items) - Len(order_items') = Len(LinesOf(o))
                /\ UNCHANGED <<products, customers, customer_email>>
       /\ ReferencesKept]_vars

\* the delete of a product with an order line has just been refused
C16_Witness ==
    /\ result = Returned("Product.delete", "ProtectedError")
    /\ order_items # <<>>
    /\ \A k \in 1..Len(order_items) : order_items[k].product \in DOMAIN products

\* ------------------------------------------------------------------------
\* Termination
\* ------------------------------------------------------------------------
\* C17: every create_order call returns, the order or a failure, also when
\* two concurrent calls update the rows of the same two products in
\* opposite orders.
C17_CallReturns == \A s \in Sessions : InFlight(s) ~> Done(s)

\* both calls took the two products in opposite orders, one was the victim
\* of the deadlock and the other committed
C17_Witness ==
    /\ Failed(1)
    /\ loc[1].exc = "OperationalError"
    /\ Succeeded(2)
    /\ Len(req[1].items) = 2
    /\ Len(req[2].items) = 2
    /\ req[1].items[1].product_id = req[2].items[2].product_id
    /\ req[1].items[2].product_id = req[2].items[1].product_id
    /\ req[1].items[1].product_id # req[1].items[2].product_id

\* ------------------------------------------------------------------------
\* The line that fails
\* ------------------------------------------------------------------------
\* the stock of the product of line k once the lines before it are taken
StockAtLine(s, k) ==
    StockBefore(s, k)
        - Requested(SubSeq(req[s].items, 1, k - 1), Line(s, k).product_id)

\* the exception the loop body raises for line k when it gets there, "" when
\* the line passes
LineOutcome(s, k) ==
    IF ~ProductExisted(s, k) THEN "ObjectDoesNotExist"
    ELSE IF StockAtLine(s, k) < Line(s, k).quantity THEN "ValueError"
    ELSE IF ~FitsLine(LineTotal(s, k)) THEN "DataError"
    ELSE IF \E j \in 1..(k - 1) : Line(s, j).product_id = Line(s, k).product_id
    THEN "IntegrityError"
    ELSE ""

FailingLines(s) == {k \in LineIdx(s) : LineOutcome(s, k) # ""}

FirstFailingLine(s) ==
    CHOOSE k \in FailingLines(s) : \A j \in FailingLines(s) : k <= j

\* C18: lines are processed in input order, each checked against the stock
\* as the call sees it after the decrements of its earlier lines; the first
\* line that fails gives the failure, and the InsufficientStock failure
\* names that product, the quantity available at the check and the
\* quantity requested.
C18_FirstFailingLineReported ==
    \A s \in Sessions :
        (Done(s) /\ Undisturbed(s) /\ CustomerExisted(s)) =>
            /\ FailingLines(s) # {} =>
                  /\ Failed(s)
                  /\ loc[s].exc = LineOutcome(s, FirstFailingLine(s))
                  /\ loc[s].exc = "ValueError" =>
                        /\ loc[s].at = "get_product"
                        /\ loc[s].args =
                              [product |-> Line(s, FirstFailingLine(s)).product_id,
                               available |-> StockAtLine(s, FirstFailingLine(s)),
                               requested |-> Line(s, FirstFailingLine(s)).quantity]
                        /\ loc[s].args.requested > loc[s].args.available
            /\ loc[s].exc = "ValueError" => FailingLines(s) # {}

\* the second line of a request fails the stock check against what the
\* first line of the same request has left
C18_Witness ==
    /\ Failed(1)
    /\ loc[1].exc = "ValueError"
    /\ Len(req[1].items) = 2
    /\ req[1].items[1].product_id = req[1].items[2].product_id
    /\ loc[1].args.product = req[1].items[2].product_id
    /\ loc[1].args.requested = req[1].items[2].quantity
    /\ loc[1].args.available # pre[1].products[loc[1].args.product].quantity
    /\ req[1].items[2].quantity > pre[1].products[loc[1].args.product].quantity

\* ------------------------------------------------------------------------
\* Concurrent decrements
\* ------------------------------------------------------------------------
\* C19: when two concurrent calls on the same product both succeed, their
\* combined request being within the stock, the final stock is the initial
\* stock minus both requested quantities.
C19_NoLostDecrement ==
    \A p \in DOMAIN products :
        ( /\ Succeeded(1)
          /\ Succeeded(2)
          /\ p \in DOMAIN pre[1].products
          /\ pre[1].products[p].quantity = pre[2].products[p].quantity
          /\ Requested(req[1].items, p) > 0
          /\ Requested(req[2].items, p) > 0
          /\ Requested(req[1].items, p) + Requested(req[2].items, p)
                <= pre[1].products[p].quantity )
        => products[p].quantity =
              pre[1].products[p].quantity
                  - (Requested(req[1].items, p) + Requested(req[2].items, p))

RECURSIVE SoldIn(_, _)
\* the quantity of product p in the OrderItem rows
SoldIn(rows, p) ==
    IF rows = <<>> THEN 0
    ELSE (IF Head(rows).product = p THEN Head(rows).quantity ELSE 0)
         + SoldIn(Tail(rows), p)

RECURSIVE TotalIn(_, _)
\* the sum of total_price over the OrderItem rows of order o
TotalIn(rows, o) ==
    IF rows = <<>> THEN DecZero
    ELSE IF Head(rows).order = o
         THEN DecAdd(Head(rows).total_price, TotalIn(Tail(rows), o))
         ELSE TotalIn(Tail(rows), o)

\* C21: over non-overlapping create_order and update_order_status calls,
\* successful or failed, the stock of every product plus the quantities of
\* its committed order lines stays what the stock was when the product was
\* created, and the total_amount of every committed order is the sum of
\* the totals of its lines.
C21_StockAndTotalsConserved ==
    [][/\ \A p \in DOMAIN products \cap DOMAIN products' :
             products'[p].quantity + SoldIn(order_items', p) =
                products[p].quantity + SoldIn(order_items, p)
       /\ \A p \in DOMAIN products' \ DOMAIN products :
             SoldIn(order_items', p) = 0
       /\ DOMAIN products \subseteq DOMAIN products'
       /\ \A p \in DOMAIN SeedProducts :
             products'[p].quantity + SoldIn(order_items', p) =
                SeedProducts[p].quantity
       /\ \A o \in DOMAIN orders' :
             orders'[o].total_amount = TotalIn(order_items', o)]_vars

\* an order of two lines is committed and has been given another status
C21_Witness ==
    /\ AllIdle
    /\ \E o \in DOMAIN orders :
          /\ Len(LinesOf(o)) = 2
          /\ orders[o].status = "delivered"
          /\ orders[o].total_amount = TotalIn(order_items, o)
          /\ orders[o].total_amount # DecZero
    /\ \E p \in DOMAIN SeedProducts :
          /\ SoldIn(order_items, p) > 0
          /\ products[p].quantity = SeedProducts[p].quantity - SoldIn(order_items, p)

====
